---------------------------- MODULE Spec2Model ----------------------------
(***************************************************************************)
(* Model of the PDL release-comparison repository:                         *)
(*   - the two table generator scripts (postings_employer_tables_rerun.py  *)
(*     and the education rerun script), as sequential programs;            *)
(*   - the reader's table-name helpers (clean_name and the make_* names);  *)
(*   - the reader's derive/reshape layer in pdl_version_comparison_app.py; *)
(*   - the reader's main: its selections, its reads and what it renders.   *)
(***************************************************************************)
EXTENDS Integers, Sequences, FiniteSets, TLC

VARIABLES
    \* ---- generator scripts
    script,      \* which script runs: "employers" (main) or "edu"
    TOPICS,      \* imported configuration, reduced to the topic the script reads
    pc,          \* position of the script
    fi,          \* number of fields the for-loop has taken from meta["fields"]
    k,           \* statement of the current field: 1 KPI, 2 COMP, 3 COMPLC
    opened,      \* number of snow.connect calls that returned
    closed,      \* number of conn.close calls
    submitted,   \* statements handed to execute_ddl, in order
    executed,    \* statements execute_ddl ran without raising, in order
    total,       \* main's success counter
    error,       \* exception that ended the script, "" when none
    \* ---- reader: table-name helpers
    topic,       \* the topic string given to the helper
    field,       \* the field string
    country,     \* the country string
    table_name,  \* the name the helper returned
    npc,         \* "input" before the call, then the helper that was called
    \* ---- reader: derive / reshape layer of main's comparison block
    has_ipeds,   \* whether the comparison table has a cnt_ipeds column
    df,          \* the comparison table as read (wide form), then with pct_change
    df_top25,    \* main's df_top25
    df_pct,      \* chart_percentages' df_pct
    long,        \* the long frame the last chart function built
    df_change,   \* main's df_change
    dpc,         \* position in main's comparison block
    \* ---- reader: main (with topic, country, field and table_name above)
    fields,      \* the fields chosen in the multiselect, in order
    fidx,        \* number of fields the for-loop has taken
    mpc,         \* position of main
    warehouse,   \* the warehouse: fully-qualified table name -> contents
    statements,  \* SQL texts handed to session.sql, in order
    rendered,    \* what the last block of main put on the page, in order
    exc,         \* the exception the last block of main caught, "" when none
    n_errors     \* number of st.error calls so far

genVars == <<script, TOPICS, pc, fi, k, opened, closed, submitted, executed, total, error>>

nameVars == <<topic, field, country, table_name, npc>>

dashVars == <<has_ipeds, df, df_top25, df_pct, long, df_change, dpc>>

mainVars == <<fields, fidx, mpc, warehouse, statements, rendered, exc, n_errors>>

vars == <<genVars, nameVars, dashVars, mainVars>>

-----------------------------------------------------------------------------
(* Bounds *)

\* largest number of fields configured under a topic
MaxFields == 2

-----------------------------------------------------------------------------
(* Generator configuration *)

\* the three table kinds main builds for each field, in program order
KINDS == <<"KPI", "COMP", "COMPLC">>

\* the mapping keys both scripts read with fmap[...] (a missing one raises KeyError)
EXPR_KEYS == {"v1_expr", "v2_expr", "lc_expr"}

\* Field names are 1..MaxFields; the education script's MIN_REQUIRED_DEGREE is field 1.
MIN_REQUIRED_DEGREE == 1

FieldIds == 1..MaxFields

\* meta["fields"]: a dict from field name to fmap, here the set of keys each fmap has
FieldDicts == UNION {[S -> SUBSET EXPR_KEYS] : S \in SUBSET FieldIds}

\* TOPICS as one script sees it: whether its topic key exists, and the topic's fields
TopicConfigs == [present : BOOLEAN, fields : FieldDicts]

RECURSIVE SortedSeq(_)
\* dict iteration order of meta["fields"].items(): insertion order, here ascending
SortedSeq(S) ==
    IF S = {} THEN <<>>
    ELSE LET m == CHOOSE x \in S : \A y \in S : x <= y
         IN <<m>> \o SortedSeq(S \ {m})

items == SortedSeq(DOMAIN TOPICS.fields)

\* the field the script is working on
field_name == IF script = "edu" THEN MIN_REQUIRED_DEGREE ELSE items[fi]

fmap == TOPICS.fields[field_name]

\* fmap["v1_expr"], fmap["v2_expr"], fmap["lc_expr"] all evaluate
exprs_present == EXPR_KEYS \subseteq fmap

Statement(f, kind) == <<f, kind>>

RECURSIVE AllStatements(_)
\* every statement main is to submit for the fields in sequence fs, in order
AllStatements(fs) ==
    IF fs = <<>> THEN <<>>
    ELSE <<Statement(Head(fs), KINDS[1]), Statement(Head(fs), KINDS[2]),
           Statement(Head(fs), KINDS[3])>> \o AllStatements(Tail(fs))

IsPrefix(s, t) == Len(s) <= Len(t) /\ SubSeq(t, 1, Len(s)) = s

-----------------------------------------------------------------------------
(* postings_employer_tables_rerun.py: main *)

Raise(e) == pc' = "raised" /\ error' = e

\* line 17: conn = snow.connect(...)
main_connect ==
    /\ script = "employers" /\ pc = "start"
    /\ opened' = opened + 1
    /\ pc' = "meta"
    /\ UNCHANGED <<script, TOPICS, fi, k, closed, submitted, executed, total, error>>
    /\ UNCHANGED <<nameVars, dashVars, mainVars>>

\* lines 22-25: meta = TOPICS["employers"]; ...; total = 0
main_meta ==
    /\ script = "employers" /\ pc = "meta"
    /\ IF TOPICS.present
         THEN pc' = "for" /\ total' = 0 /\ error' = error
         ELSE Raise("KeyError") /\ total' = total
    /\ UNCHANGED <<script, TOPICS, fi, k, opened, closed, submitted, executed>>
    /\ UNCHANGED <<nameVars, dashVars, mainVars>>

\* line 27: for field_name, fmap in meta["fields"].items()
main_for ==
    /\ script = "employers" /\ pc = "for"
    /\ IF fi < Len(items)
         THEN fi' = fi + 1 /\ k' = 1 /\ pc' = "build"
         ELSE fi' = fi /\ k' = k /\ pc' = "close"
    /\ UNCHANGED <<script, TOPICS, opened, closed, submitted, executed, total, error>>
    /\ UNCHANGED <<nameVars, dashVars, mainVars>>

\* lines 33-37, 46-50, 59-63: the name and the SQL text of statement k;
\* the fmap[...] subscripts raise KeyError outside every try block
main_build ==
    /\ script = "employers" /\ pc = "build"
    /\ IF exprs_present
         THEN pc' = "try" /\ error' = error
         ELSE Raise("KeyError")
    /\ UNCHANGED <<script, TOPICS, fi, k, opened, closed, submitted, executed, total>>
    /\ UNCHANGED <<nameVars, dashVars, mainVars>>

\* after the try statement of kind k: the next kind, or back to the for-loop
main_after_try == IF k < Len(KINDS) THEN k' = k + 1 /\ pc' = "build"
                  ELSE k' = k /\ pc' = "for"

\* a mutant of main_except: the exception leaves main
main_except_propagates == Raise("ExecError") /\ k' = k

\* lines 42-43, 55-56, 68-69: except Exception as e: print(...)
main_except == main_after_try /\ error' = error

\* a mutant of main_total: the counter also counts failed statements
main_total_always(ok) == total + 1

\* lines 41, 54, 67: total += 1, after execute_ddl returned
main_total(ok) == IF ok THEN total + 1 ELSE total

\* lines 38-43, 51-56, 64-69: try: execute_ddl(CREATE OR REPLACE TABLE ...)
main_try ==
    /\ script = "employers" /\ pc = "try"
    /\ submitted' = Append(submitted, Statement(field_name, KINDS[k]))
    /\ \/ \* execute_ddl returns
          /\ executed' = Append(executed, Statement(field_name, KINDS[k]))
          /\ total' = main_total(TRUE)
          /\ main_after_try /\ error' = error
       \/ \* execute_ddl raises
          /\ executed' = executed
          /\ total' = main_total(FALSE)
          /\ main_except
    /\ UNCHANGED <<script, TOPICS, fi, opened, closed>>
    /\ UNCHANGED <<nameVars, dashVars, mainVars>>

\* lines 71-72: conn.close(); print(Done ...)
main_close ==
    /\ script = "employers" /\ pc = "close"
    /\ closed' = closed + 1
    /\ pc' = "done"
    /\ UNCHANGED <<script, TOPICS, fi, k, opened, submitted, executed, total, error>>
    /\ UNCHANGED <<nameVars, dashVars, mainVars>>

-----------------------------------------------------------------------------
(* the education rerun script (module level statements) *)

\* lines 10-13: conn = snow.connect(...)
edu_connect ==
    /\ script = "edu" /\ pc = "start"
    /\ opened' = opened + 1
    /\ pc' = "meta"
    /\ UNCHANGED <<script, TOPICS, fi, k, closed, submitted, executed, total, error>>
    /\ UNCHANGED <<nameVars, dashVars, mainVars>>

\* lines 16-18: meta = TOPICS["education"]; fmap = meta["fields"]["MIN_REQUIRED_DEGREE"]
edu_meta ==
    /\ script = "edu" /\ pc = "meta"
    /\ IF TOPICS.present /\ MIN_REQUIRED_DEGREE \in DOMAIN TOPICS.fields
         THEN pc' = "build" /\ error' = error
         ELSE Raise("KeyError")
    /\ UNCHANGED <<script, TOPICS, fi, k, opened, closed, submitted, executed, total>>
    /\ UNCHANGED <<nameVars, dashVars, mainVars>>

\* lines 21-28: kpi_name, kpi_sql = sql_generic_kpis(fmap["v1_expr"], ...)
edu_build ==
    /\ script = "edu" /\ pc = "build"
    /\ IF exprs_present
         THEN pc' = "exec" /\ error' = error
         ELSE Raise("KeyError")
    /\ UNCHANGED <<script, TOPICS, fi, k, opened, closed, submitted, executed, total>>
    /\ UNCHANGED <<nameVars, dashVars, mainVars>>

\* lines 29-30: execute_ddl(...) with no try around it; print(Done)
edu_exec ==
    /\ script = "edu" /\ pc = "exec"
    /\ submitted' = Append(submitted, Statement(field_name, KINDS[1]))
    /\ \/ \* execute_ddl returns
          /\ executed' = Append(executed, Statement(field_name, KINDS[1]))
          /\ pc' = "close" /\ error' = error
       \/ \* execute_ddl raises: the script ends with the exception
          /\ executed' = executed
          /\ Raise("ExecError")
    /\ UNCHANGED <<script, TOPICS, fi, k, opened, closed, total>>
    /\ UNCHANGED <<nameVars, dashVars, mainVars>>

\* line 32: conn.close()
edu_close ==
    /\ script = "edu" /\ pc = "close"
    /\ closed' = closed + 1
    /\ pc' = "done"
    /\ UNCHANGED <<script, TOPICS, fi, k, opened, submitted, executed, total, error>>
    /\ UNCHANGED <<nameVars, dashVars, mainVars>>

-----------------------------------------------------------------------------
(* pdl_version_comparison_app.py: table-name helpers.                      *)
(* A Python str is a sequence of one-character strings.                    *)

LOWER == <<"a", "b", "c", "d", "e", "f", "g", "h", "i", "j", "k", "l", "m",
           "n", "o", "p", "q", "r", "s", "t", "u", "v", "w", "x", "y", "z">>

UPPER == <<"A", "B", "C", "D", "E", "F", "G", "H", "I", "J", "K", "L", "M",
           "N", "O", "P", "Q", "R", "S", "T", "U", "V", "W", "X", "Y", "Z">>

IsLower(c) == \E i \in 1..Len(LOWER) : LOWER[i] = c

\* str.upper on one character
upper_char(c) ==
    IF IsLower(c) THEN UPPER[CHOOSE i \in 1..Len(LOWER) : LOWER[i] = c] ELSE c

\* str.upper
upper(s) == [i \in 1..Len(s) |-> upper_char(s[i])]

RECURSIVE replace(_, _, _)
\* str.replace(old, new) for a one-character old: every occurrence, left to right
replace(s, old, new) ==
    IF s = <<>> THEN <<>>
    ELSE (IF Head(s) = old THEN new ELSE <<Head(s)>>) \o replace(Tail(s), old, new)

\* a mutant of clean_name: the apostrophe is left in
clean_name_keeps_apostrophe(s) ==
    replace(replace(upper(s), " ", <<"_">>), "-", <<"_">>)

\* lines 22-23: s.upper().replace(" ", "_").replace("-", "_").replace("'", "")
clean_name(s) ==
    replace(replace(replace(upper(s), " ", <<"_">>), "-", <<"_">>), "'", <<>>)

COMP_PREFIX == <<"C", "O", "M", "P", "_">>

KPI_PREFIX == <<"K", "P", "I", "_">>

\* lines 37-38: f"COMP_{clean_name(topic)}_{clean_name(field)}_{clean_name(country)}"
make_comparison_table_name(t, f, c) ==
    COMP_PREFIX \o clean_name(t) \o <<"_">> \o clean_name(f) \o <<"_">> \o clean_name(c)

\* a mutant of make_kpi_table_name: the country is left out of the name
make_kpi_table_name_no_country(t, f, c) ==
    KPI_PREFIX \o clean_name(t) \o <<"_">> \o clean_name(f)

\* lines 40-41: f"KPI_{clean_name(topic)}_{clean_name(field)}_{clean_name(country)}"
make_kpi_table_name(t, f, c) ==
    KPI_PREFIX \o clean_name(t) \o <<"_">> \o clean_name(f) \o <<"_">> \o clean_name(c)

\* main line 465: kpi_table = make_kpi_table_name(topic, field, country)
call_make_kpi_table_name ==
    /\ npc = "input"
    /\ table_name' = make_kpi_table_name(topic, field, country)
    /\ npc' = "kpi"
    /\ UNCHANGED <<topic, field, country>>
    /\ UNCHANGED <<genVars, dashVars, mainVars>>

\* main line 480: comp_table = make_comparison_table_name(topic, field, country)
call_make_comparison_table_name ==
    /\ npc = "input"
    /\ table_name' = make_comparison_table_name(topic, field, country)
    /\ npc' = "comp"
    /\ UNCHANGED <<topic, field, country>>
    /\ UNCHANGED <<genVars, dashVars, mainVars>>

(* Inputs of the helpers *)

\* one character of each class clean_name tells apart, and two it leaves alone
Alphabet == {"a", "Z", " ", "-", "'", "_", "1"}

\* longest free-text field string
MaxNameLen == 2

RECURSIVE StringsOfLen(_)
StringsOfLen(n) ==
    IF n = 0 THEN {<<>>}
    ELSE {Append(s, c) : s \in StringsOfLen(n - 1), c \in Alphabet}

StringsUpTo(n) == UNION {StringsOfLen(m) : m \in 0..n}

S_employers == <<"e", "m", "p", "l", "o", "y", "e", "r", "s">>

S_BGI_Company_Name ==
    <<"B", "G", "I", " ", "C", "o", "m", "p", "a", "n", "y", " ", "N", "a", "m", "e">>

S_United_States ==
    <<"U", "n", "i", "t", "e", "d", " ", "S", "t", "a", "t", "e", "s">>

S_Bachelors_Degree ==
    <<"B", "a", "c", "h", "e", "l", "o", "r", "'", "s", " ", "D", "e", "g", "r", "e", "e">>

S_Guinea_Bissau ==
    <<"G", "u", "i", "n", "e", "a", "-", "B", "i", "s", "s", "a", "u">>

TopicInputs == StringsUpTo(1) \cup {S_employers}

FieldInputs == StringsUpTo(MaxNameLen) \cup {S_BGI_Company_Name, S_Bachelors_Degree}

CountryInputs == StringsUpTo(1) \cup {S_United_States, S_Guinea_Bissau}

-----------------------------------------------------------------------------
(* pdl_version_comparison_app.py: derive / reshape layer.                  *)
(* A numeric cell is a float64: a rational n/d in lowest terms (d > 0),    *)
(* NaN, or an infinity. A text cell is a string or null.                   *)

NaN == [k |-> "nan", n |-> 0, d |-> 1]

Inf == [k |-> "inf", n |-> 0, d |-> 1]

NegInf == [k |-> "ninf", n |-> 0, d |-> 1]

Abs(x) == IF x < 0 THEN -x ELSE x

RECURSIVE Gcd(_, _)
Gcd(a, b) == IF b = 0 THEN a ELSE Gcd(b, a % b)

\* the float n/d for d # 0
Frac(n, d) ==
    LET g == Gcd(Abs(n), Abs(d))
        sgn == IF d < 0 THEN -1 ELSE 1
    IN [k |-> "num", n |-> (sgn * n) \div g, d |-> (sgn * d) \div g]

Num(c) == Frac(c, 1)

IsNaN(x) == x.k = "nan"

\* Series - Series, elementwise
fsub(a, b) ==
    IF a.k = "num" /\ b.k = "num" THEN Frac(a.n * b.d - b.n * a.d, a.d * b.d)
    ELSE NaN

\* Series / Series or Series / scalar, elementwise, IEEE division
fdiv(a, b) ==
    IF a.k # "num" \/ b.k # "num" THEN NaN
    ELSE IF b.n # 0 THEN Frac(a.n * b.d, a.d * b.n)
    ELSE IF a.n > 0 THEN Inf
    ELSE IF a.n < 0 THEN NegInf
    ELSE NaN

\* Series.abs
fabs(a) ==
    IF a.k = "num" THEN Frac(Abs(a.n), a.d)
    ELSE IF a.k = "ninf" THEN Inf
    ELSE a

\* a >= b for cells that are not NaN
fge(a, b) ==
    IF a.k = "inf" \/ b.k = "ninf" THEN TRUE
    ELSE IF a.k = "ninf" \/ b.k = "inf" THEN FALSE
    ELSE a.n * b.d >= b.n * a.d

fadd(a, b) == Frac(a.n * b.d + b.n * a.d, a.d * b.d)

RECURSIVE fsum(_)
\* Series.sum(): NaN cells are skipped, the empty sum is 0
fsum(cells) ==
    IF cells = <<>> THEN Num(0)
    ELSE IF IsNaN(Head(cells)) THEN fsum(Tail(cells))
    ELSE fadd(Head(cells), fsum(Tail(cells)))

\* truth value of a numpy scalar: false for zero only
truthy(x) == ~(x.k = "num" /\ x.n = 0)

Str(t) == [null |-> FALSE, s |-> t]

NullCell == [null |-> TRUE, s |-> ""]

\* line 93
NULL_LABEL == "<NULL>"

\* lines 12-13, 16-17, 25-26: column names cnt_{BASE_A}, cnt_{NEW_A}
CNT_BASE == "cnt_v5_oct25"

CNT_NEW == "cnt_v5_jan26"

CNT_IPEDS == "cnt_ipeds"

Column(F, c) == [i \in 1..Len(F) |-> F[i][c]]

\* a mutant of where: the mask is not applied
where_unmasked(v, cond) == v

\* Series.where(cond): the value where cond holds, NaN elsewhere
where(v, cond) == IF cond THEN v ELSE NaN

\* Series != 0 (NaN != 0 is True)
ne0(x) == ~(x.k = "num" /\ x.n = 0)

\* lines 491-493: ((new - base) / base).where(base != 0), for one row
pct_change_of(row) ==
    where(fdiv(fsub(row[CNT_NEW], row[CNT_BASE]), row[CNT_BASE]), ne0(row[CNT_BASE]))

\* lines 491-493: df["pct_change"] = ...
with_pct_change(F) == [i \in 1..Len(F) |-> [F[i] EXCEPT !.pct_change = pct_change_of(F[i])]]

\* DataFrame.head(n)
head(F, n) == SubSeq(F, 1, IF Len(F) < n THEN Len(F) ELSE n)

\* the order sort_values(ascending=False) puts two keys in: NaN keys last
desc_order(a, b) == IsNaN(b) \/ (~IsNaN(a) /\ fge(a, b))

\* DataFrame.sort_values(col, ascending=False) with the default kind
\* (quicksort, not stable): every frame ordered by the key may result
sort_values_desc(F, keys) ==
    {[i \in 1..Len(F) |-> F[p[i]]] :
        p \in {q \in Permutations(1..Len(F)) :
                 \A i, j \in 1..Len(F) : i < j => desc_order(keys[q[i]], keys[q[j]])}}

\* a mutant of dropna: nothing is dropped
dropna_keeps_all(F) == F

\* DataFrame.dropna(subset=["pct_change"])
dropna(F) == SelectSeq(F, LAMBDA row : ~IsNaN(row.pct_change))

\* lines 214-219, 253-258: value_cols
value_cols == IF has_ipeds THEN <<CNT_BASE, CNT_NEW, CNT_IPEDS>> ELSE <<CNT_BASE, CNT_NEW>>

\* lines 263-264, 267: col.replace("cnt_", "") behind "pct_"
pct_name(col) ==
    CASE col = CNT_BASE -> "pct_v5_oct25"
      [] col = CNT_NEW -> "pct_v5_jan26"
      [] col = CNT_IPEDS -> "pct_ipeds"

\* lines 224-228, 270-274: version_map, with _label the identity
version_map(col) ==
    CASE col \in {CNT_BASE, "pct_v5_oct25"} -> "v5_OCT25"
      [] col \in {CNT_NEW, "pct_v5_jan26"} -> "v5_JAN26"
      [] col \in {CNT_IPEDS, "pct_ipeds"} -> "ipeds"

\* a mutant of pct_column: the division is done also when the total is zero
pct_column_always_divides(F, col) ==
    [i \in 1..Len(F) |-> fdiv(F[i][col], fsum(Column(F, col)))]

\* lines 260, 264: df[col] / totals[col] if totals[col] else 0
pct_column(F, col) ==
    LET totals == fsum(Column(F, col))
    IN [i \in 1..Len(F) |-> IF truthy(totals) THEN fdiv(F[i][col], totals) ELSE Num(0)]

\* lines 260-264: df_pct, the frame with one pct_ column per value column
percentages(F) ==
    [i \in 1..Len(F) |->
        F[i] @@ [c \in {pct_name(value_cols[j]) : j \in 1..Len(value_cols)} |->
                    LET col == CHOOSE v \in {value_cols[j] : j \in 1..Len(value_cols)} :
                                   pct_name(v) = c
                    IN pct_column(F, col)[i]]]

\* lines 187-190: _prepare on a Series cell: fillna(NULL_LABEL).astype(str)
_prepare(val) == IF val.null THEN Str(NULL_LABEL) ELSE Str(val.s)

\* a mutant of _melt: rows with a null field_value are dropped
_melt_drops_null(F, cols) ==
    LET G == SelectSeq(F, LAMBDA row : ~row.field_value.null)
    IN [m \in 1..(Len(cols) * Len(G)) |->
          [field_value |-> _prepare(G[((m - 1) % Len(G)) + 1].field_value),
           version |-> cols[((m - 1) \div Len(G)) + 1],
           value |-> G[((m - 1) % Len(G)) + 1][cols[((m - 1) \div Len(G)) + 1]]]]

\* lines 192-200: _melt: on a copy, field_value prepared, then DataFrame.melt:
\* for each value column in turn, one row per input row
_melt(F, cols) ==
    [m \in 1..(Len(cols) * Len(F)) |->
        [field_value |-> _prepare(F[((m - 1) % Len(F)) + 1].field_value),
         version |-> cols[((m - 1) \div Len(F)) + 1],
         value |-> F[((m - 1) % Len(F)) + 1][cols[((m - 1) \div Len(F)) + 1]]]]

\* lines 229, 275: long["version"] = long["version"].map(version_map)
map_version(L) == [m \in 1..Len(L) |-> [L[m] EXCEPT !.version = version_map(@)]]

(* Bounds of the frames *)

\* most rows of a comparison table drawn freely
MaxRows == 3

\* the n of df.sort_values(...).head(25), scaled to the tables of the model
HEAD_TOP == 2

\* the n of the largest-change .head(20), scaled likewise
HEAD_CHANGE == 2

(* main's comparison block *)

\* lines 485-488: if df.empty: st.info(...); continue
main_empty ==
    /\ dpc = "read" /\ df = <<>>
    /\ dpc' = "done"
    /\ UNCHANGED <<has_ipeds, df, df_top25, df_pct, long, df_change>>
    /\ UNCHANGED <<genVars, nameVars, mainVars>>

\* lines 491-495: df["pct_change"] = ...; df_top25 = df.sort_values(...).head(25)
main_derive ==
    /\ dpc = "read" /\ df # <<>>
    /\ LET d == with_pct_change(df)
       IN /\ df' = d
          /\ \E sorted \in sort_values_desc(d, Column(d, CNT_NEW)) :
                df_top25' = head(sorted, HEAD_TOP)
    /\ dpc' = "top25"
    /\ UNCHANGED <<has_ipeds, df_pct, long, df_change>>
    /\ UNCHANGED <<genVars, nameVars, mainVars>>

\* lines 497-500, 252-275: chart_percentages(df_top25, ...)
chart_percentages ==
    /\ dpc = "top25"
    /\ df_pct' = percentages(df_top25)
    /\ long' = map_version(_melt(df_pct',
                 [j \in 1..Len(value_cols) |-> pct_name(value_cols[j])]))
    /\ dpc' = "percentages"
    /\ UNCHANGED <<has_ipeds, df, df_top25, df_change>>
    /\ UNCHANGED <<genVars, nameVars, mainVars>>

\* lines 501-504, 213-229: chart_counts(df_top25, ...)
chart_counts ==
    /\ dpc = "percentages"
    /\ long' = map_version(_melt(df_top25, value_cols))
    /\ dpc' = "counts"
    /\ UNCHANGED <<has_ipeds, df, df_top25, df_pct, df_change>>
    /\ UNCHANGED <<genVars, nameVars, mainVars>>

\* line 508: .assign(abs_change=lambda d: d["pct_change"].abs())
assign_abs_change(F) ==
    [i \in 1..Len(F) |-> F[i] @@ [c \in {"abs_change"} |-> fabs(F[i].pct_change)]]

\* lines 506-511: df_change = df.dropna(...).assign(...).sort_values(...).head(20)
main_change ==
    /\ dpc = "counts"
    /\ LET kept == assign_abs_change(dropna(df))
       IN \E sorted \in sort_values_desc(kept, Column(kept, "abs_change")) :
             df_change' = head(sorted, HEAD_CHANGE)
    /\ dpc' = "done"
    /\ UNCHANGED <<has_ipeds, df, df_top25, df_pct, long>>
    /\ UNCHANGED <<genVars, nameVars, mainVars>>

(* Comparison tables the block is run on *)

\* one row as session.sql(...).to_pandas() returns it, columns lower-cased; a
\* column the frame does not have (yet) holds NaN and is not read
Row(i, fv, base, new, ipeds) ==
    [index |-> i - 1, field_value |-> fv, cnt_v5_oct25 |-> base,
     cnt_v5_jan26 |-> new, cnt_ipeds |-> ipeds, pct_change |-> NaN]

\* a table from its cells <<field_value, base, new, ipeds>>, indexed 0, 1, ...
Table(cells) ==
    [i \in 1..Len(cells) |-> Row(i, cells[i][1], cells[i][2], cells[i][3], cells[i][4])]

\* field values are distinct (the table has one row per value)
FIELD_VALUES == <<"Bachelor's Degree", "Certificate", "Associate", "Doctorate",
                  "Master's Degree", "High School">>

Counts == {Num(0), Num(1), Num(2)}

\* a table of n rows without a cnt_ipeds column: counts cnt, the first row's
\* value null or not (null_at 1 or 0)
FreeTable(n, cnt, null_at) ==
    [i \in 1..n |->
        Row(i, IF i = null_at THEN NullCell ELSE Str(FIELD_VALUES[i]),
            cnt[i][1], cnt[i][2], NaN)]

\* the rows the pct_change examples name, and a row with no count at all
SC_pct_change ==
    [has_ipeds |-> FALSE,
     df |-> Table(<<<<Str("Bachelor's Degree"), Num(100), Num(150), NaN>>,
                    <<Str("Certificate"), Num(100), Num(50), NaN>>,
                    <<Str("Associate"), Num(0), Num(7), NaN>>,
                    <<Str("Doctorate"), Num(0), Num(0), NaN>>>>)]

\* the largest-change scenario
SC_largest_change ==
    [has_ipeds |-> FALSE,
     df |-> Table(<<<<Str("Bachelor's Degree"), Num(100), Num(120), NaN>>,
                    <<Str("Certificate"), Num(0), Num(10), NaN>>>>)]

\* counts that are null in one version (the value occurs in the other only)
SC_null_counts ==
    [has_ipeds |-> FALSE,
     df |-> Table(<<<<Str("Bachelor's Degree"), NaN, Num(3), NaN>>,
                    <<NullCell, Num(4), NaN, NaN>>,
                    <<Str("Associate"), Num(2), Num(5), NaN>>,
                    <<Str("Doctorate"), Num(0), Num(5), NaN>>,
                    <<Str("Certificate"), NaN, NaN, NaN>>>>)]

\* an education table with the ipeds benchmark column
SC_ipeds ==
    [has_ipeds |-> TRUE,
     df |-> Table(<<<<Str("Bachelor's Degree"), Num(40), Num(60), Num(30)>>,
                    <<Str("Certificate"), Num(10), Num(20), Num(0)>>,
                    <<NullCell, Num(50), Num(20), NaN>>>>)]

\* an education table whose ipeds column is all zero
SC_ipeds_zero ==
    [has_ipeds |-> TRUE,
     df |-> Table(<<<<Str("Associate"), Num(3), Num(1), Num(0)>>,
                    <<Str("Doctorate"), Num(1), Num(1), Num(0)>>>>)]

Scenarios == {SC_pct_change, SC_largest_change, SC_null_counts, SC_ipeds, SC_ipeds_zero}

-----------------------------------------------------------------------------
(* pdl_version_comparison_app.py: configuration, session and main *)

\* line 12
BASE_VERSION ==
    <<"v", "5", "_", "O", "C", "T", "2", "5">>

\* line 13
NEW_VERSION ==
    <<"v", "5", "_", "J", "A", "N", "2", "6">>

\* line 27
DATABASE ==
    <<"P", "R", "O", "J", "E", "C", "T", "_", "D", "A", "T", "A">>

S_PDL_RELEASE_COMPARISONS_ ==
    <<"P", "D", "L", "_", "R", "E", "L", "E", "A", "S", "E", "_", "C", "O",
      "M", "P", "A", "R", "I", "S", "O", "N", "S", "_">>

S_United_Kingdom ==
    <<"U", "n", "i", "t", "e", "d", " ", "K", "i", "n", "g", "d", "o", "m">>

S_Singapore ==
    <<"S", "i", "n", "g", "a", "p", "o", "r", "e">>

S_Canada ==
    <<"C", "a", "n", "a", "d", "a">>

S_Australia ==
    <<"A", "u", "s", "t", "r", "a", "l", "i", "a">>

S_New_Zealand ==
    <<"N", "e", "w", " ", "Z", "e", "a", "l", "a", "n", "d">>

S_Switzerland ==
    <<"S", "w", "i", "t", "z", "e", "r", "l", "a", "n", "d">>

S_Hong_Kong ==
    <<"H", "o", "n", "g", " ", "K", "o", "n", "g">>

S_China ==
    <<"C", "h", "i", "n", "a">>

S_dashboard_information ==
    <<"d", "a", "s", "h", "b", "o", "a", "r", "d", " ", "i", "n", "f", "o",
      "r", "m", "a", "t", "i", "o", "n">>

S_roles ==
    <<"r", "o", "l", "e", "s">>

S_education ==
    <<"e", "d", "u", "c", "a", "t", "i", "o", "n">>

S_location ==
    <<"l", "o", "c", "a", "t", "i", "o", "n">>

S_BGI_SOC2_NAME ==
    <<"B", "G", "I", "_", "S", "O", "C", "2", "_", "N", "A", "M", "E">>

S_BGI_ONET_NAME ==
    <<"B", "G", "I", "_", "O", "N", "E", "T", "_", "N", "A", "M", "E">>

S_BGI_SUBOCCUPATION_NAME ==
    <<"B", "G", "I", "_", "S", "U", "B", "O", "C", "C", "U", "P", "A", "T",
      "I", "O", "N", "_", "N", "A", "M", "E">>

S_BGI_STANDARD_TITLE ==
    <<"B", "G", "I", "_", "S", "T", "A", "N", "D", "A", "R", "D", "_", "T",
      "I", "T", "L", "E">>

S_BGI_DEGREE_MAX_PER_ENTRY ==
    <<"B", "G", "I", "_", "D", "E", "G", "R", "E", "E", "_", "M", "A", "X",
      "_", "P", "E", "R", "_", "E", "N", "T", "R", "Y">>

S_BGI_DEGREE_MAX_PER_ID ==
    <<"B", "G", "I", "_", "D", "E", "G", "R", "E", "E", "_", "M", "A", "X",
      "_", "P", "E", "R", "_", "I", "D">>

S_BGI_DEGREE ==
    <<"B", "G", "I", "_", "D", "E", "G", "R", "E", "E">>

S_BGI_MAJOR_CIP6_NAME ==
    <<"B", "G", "I", "_", "M", "A", "J", "O", "R", "_", "C", "I", "P", "6",
      "_", "N", "A", "M", "E">>

S_BGI_SCHOOL_NAME ==
    <<"B", "G", "I", "_", "S", "C", "H", "O", "O", "L", "_", "N", "A", "M",
      "E">>

S_BGI_NAICS2_NAME ==
    <<"B", "G", "I", "_", "N", "A", "I", "C", "S", "2", "_", "N", "A", "M",
      "E">>

S_BGI_COMPANY_NAME ==
    <<"B", "G", "I", "_", "C", "O", "M", "P", "A", "N", "Y", "_", "N", "A",
      "M", "E">>

S_BGI_STATE ==
    <<"B", "G", "I", "_", "S", "T", "A", "T", "E">>

S_BGI_COUNTY_NAME ==
    <<"B", "G", "I", "_", "C", "O", "U", "N", "T", "Y", "_", "N", "A", "M",
      "E">>

S_BGI_CITY ==
    <<"B", "G", "I", "_", "C", "I", "T", "Y">>

\* line 529
ROLES_BENCHMARK_OEWS_ACS ==
    <<"R", "O", "L", "E", "S", "_", "B", "E", "N", "C", "H", "M", "A", "R",
      "K", "_", "O", "E", "W", "S", "_", "A", "C", "S">>

\* line 552
EMPLOYERS_INDUSTRY_BLS ==
    <<"E", "M", "P", "L", "O", "Y", "E", "R", "S", "_", "I", "N", "D", "U",
      "S", "T", "R", "Y", "_", "B", "L", "S">>

\* line 28: f"PDL_RELEASE_COMPARISONS_{clean_name(BASE_VERSION)}_{clean_name(NEW_VERSION)}"
SCHEMA ==
    S_PDL_RELEASE_COMPARISONS_ \o clean_name(BASE_VERSION) \o <<"_">>
        \o clean_name(NEW_VERSION)

\* lines 43-45: f"{DATABASE}.{SCHEMA}.{table}"
_fq(table) == DATABASE \o <<".">> \o SCHEMA \o <<".">> \o table

\* lines 82-92
COUNTRY_OPTIONS ==
    <<S_United_States, S_United_Kingdom, S_Singapore, S_Canada, S_Australia,
      S_New_Zealand, S_Switzerland, S_Hong_Kong, S_China>>

\* lines 135-184: the reader's TOPICS dict, as its items in insertion order
TOPICS_items ==
    <<[key |-> S_dashboard_information, fields |-> <<>>],
      [key |-> S_roles,
       fields |-> <<S_BGI_SOC2_NAME, S_BGI_ONET_NAME, S_BGI_SUBOCCUPATION_NAME,
                    S_BGI_STANDARD_TITLE>>],
      [key |-> S_education,
       fields |-> <<S_BGI_DEGREE_MAX_PER_ENTRY, S_BGI_DEGREE_MAX_PER_ID,
                    S_BGI_DEGREE, S_BGI_MAJOR_CIP6_NAME, S_BGI_SCHOOL_NAME>>],
      [key |-> S_employers, fields |-> <<S_BGI_NAICS2_NAME, S_BGI_COMPANY_NAME>>],
      [key |-> S_location, fields |-> <<S_BGI_STATE, S_BGI_COUNTY_NAME, S_BGI_CITY>>]>>

\* line 426: topic_options = list(TOPICS.keys())
topic_options == [i \in 1..Len(TOPICS_items) |-> TOPICS_items[i].key]

\* line 443: topic_meta = TOPICS[topic]
topic_meta(t) ==
    TOPICS_items[CHOOSE i \in 1..Len(TOPICS_items) : TOPICS_items[i].key = t]

Range(s) == {s[i] : i \in 1..Len(s)}

\* a mutant of select_all: the statement rebuilds the table it names
select_all_replaces(table) == [verb |-> "CREATE OR REPLACE TABLE", from |-> _fq(table)]

\* the text main hands to session.sql: f"SELECT * FROM {_fq(table)}"
select_all(table) == [verb |-> "SELECT", from |-> _fq(table)]

\* session.sql(text) run against the warehouse: a SELECT leaves every table
\* as it is, a CREATE OR REPLACE TABLE or an INSERT writes its table, a DROP
\* removes it
sql_effect(stmt, wh) ==
    IF stmt.verb = "SELECT" THEN wh
    ELSE IF stmt.verb = "DROP"
      THEN [n \in DOMAIN wh \ {stmt.from} |-> wh[n]]
      ELSE [n \in DOMAIN wh \cup {stmt.from} |->
               IF n = stmt.from THEN "written" ELSE wh[n]]

\* .to_pandas() of a SELECT: the rows of the table when it exists ("rows" or
\* "empty"), or an exception (the table does not exist; or any other failure
\* of the session or the query)
to_pandas(stmt, wh) ==
    IF stmt.from \in DOMAIN wh THEN {wh[stmt.from], "error"} ELSE {"error"}

\* one thing put on the page; table is the table name an st.info ends with
Widget(w, text) == [w |-> w, text |-> text, table |-> <<>>]

\* a mutant of except_block: the handler shows the error and raises it again
except_block_reraises(what, table) ==
    [shown |-> <<Widget("error", what),
                 [w |-> "info", text |-> "Expected table: ", table |-> _fq(table)]>>,
     raised |-> TRUE]

\* the two calls of every except block of main:
\*   st.error(f"Error loading ... data: {e}"); st.info(f"Expected table: {_fq(table)}")
\* raised tells whether the block lets the exception out
except_block(what, table) ==
    [shown |-> <<Widget("error", what),
                 [w |-> "info", text |-> "Expected table: ", table |-> _fq(table)]>>,
     raised |-> FALSE]

\* a try block of main that reads a table: the statement is submitted; then
\* either the body renders (ok) or the except block handles the exception e
\*   r: what to_pandas gave; body: what the try body renders for r, or the
\*   exception it raises; after: position after the block when nothing escapes
try_read(table, r, body, what, after) ==
    LET stmt == select_all(table)
        h == except_block(what, table)
    IN  /\ statements' = Append(statements, stmt)
        /\ warehouse' = sql_effect(stmt, warehouse)
        /\ IF r = "error" \/ body.raises # ""
             THEN /\ exc' = (IF r = "error" THEN "SnowparkSQLException" ELSE body.raises)
                  /\ n_errors' = n_errors + 1
                  /\ rendered' = h.shown \o (IF h.raised THEN <<>> ELSE body.finally)
                  /\ mpc' = IF h.raised THEN "raised" ELSE after
             ELSE /\ exc' = ""
                  /\ n_errors' = n_errors
                  /\ rendered' = body.shown \o body.finally
                  /\ mpc' = IF body.continue THEN "for" ELSE after

\* what a try body does: the widgets it shows, the exception it raises, the
\* widgets that follow the try statement, and whether it ends with continue
Body(shown, raises, finally, continue) ==
    [shown |-> shown, raises |-> raises, finally |-> finally, continue |-> continue]

\* lines 426-454: the selections, and the information page
main_topic ==
    /\ mpc = "start"
    /\ IF topic = S_dashboard_information
         THEN /\ rendered' = <<Widget("title", ""), Widget("header", ""),
                               Widget("markdown", ""),
                               Widget("info", "Select a topic on the left to get started.")>>
              /\ mpc' = "done"
         ELSE /\ rendered' = <<Widget("title", ""), Widget("caption", "")>>
              /\ mpc' = "for"
    /\ exc' = ""
    /\ UNCHANGED <<fields, fidx, warehouse, statements, n_errors>>
    /\ UNCHANGED <<topic, field, country, table_name, npc>>
    /\ UNCHANGED <<genVars, dashVars>>

\* lines 456-462: for field in fields; the subheader and the title note
main_field ==
    /\ mpc = "for"
    /\ IF fidx < Len(fields)
         THEN /\ fidx' = fidx + 1
              /\ field' = fields[fidx + 1]
              /\ rendered' =
                    <<Widget("subheader", "")>> \o
                    (IF upper(fields[fidx + 1]) = S_BGI_STANDARD_TITLE
                       THEN <<Widget("info", "Please note")>> ELSE <<>>)
              /\ mpc' = "kpi"
         ELSE /\ fidx' = fidx /\ field' = field
              /\ rendered' = <<>>
              /\ mpc' = "roles"
    /\ exc' = ""
    /\ UNCHANGED <<fields, warehouse, statements, n_errors>>
    /\ UNCHANGED <<topic, country, table_name, npc>>
    /\ UNCHANGED <<genVars, dashVars>>

\* lines 464-477: the KPI table; kpi_df.iloc[0] of an empty frame raises
main_kpi ==
    /\ mpc = "kpi"
    /\ LET kpi_table == make_kpi_table_name(topic, field, country)
       IN  /\ table_name' = kpi_table
           /\ \E r \in to_pandas(select_all(kpi_table), warehouse) :
                 try_read(kpi_table, r,
                          IF r = "empty"
                            THEN Body(<<>>, "IndexError", <<>>, FALSE)
                            ELSE Body(<<Widget("metrics", "")>>, "", <<>>, FALSE),
                          "Error loading KPI data: ", "comp")
    /\ UNCHANGED <<fields, fidx>>
    /\ UNCHANGED <<topic, field, country, npc>>
    /\ UNCHANGED <<genVars, dashVars>>

\* lines 479-522: the comparison table and its charts; st.divider() follows
\* the try statement, and the empty case draws its own before continue
main_comp ==
    /\ mpc = "comp"
    /\ LET comp_table == make_comparison_table_name(topic, field, country)
       IN  /\ table_name' = comp_table
           /\ \E r \in to_pandas(select_all(comp_table), warehouse) :
                 try_read(comp_table, r,
                          IF r = "empty"
                            THEN Body(<<Widget("info", "No data returned."),
                                        Widget("divider", "")>>, "", <<>>, TRUE)
                            ELSE Body(<<Widget("chart_percentages", ""),
                                        Widget("chart_counts", ""),
                                        Widget("chart_pct_change", "")>>, "",
                                      <<Widget("divider", "")>>, FALSE),
                          "Error loading comparison data: ", "for")
    /\ UNCHANGED <<fields, fidx>>
    /\ UNCHANGED <<topic, field, country, npc>>
    /\ UNCHANGED <<genVars, dashVars>>

\* lines 524-545: the roles benchmark chart, for the topic "roles" only
main_roles ==
    /\ mpc = "roles"
    /\ IF topic = S_roles
         THEN \E r \in to_pandas(select_all(ROLES_BENCHMARK_OEWS_ACS), warehouse) :
                try_read(ROLES_BENCHMARK_OEWS_ACS, r,
                         IF r = "empty"
                           THEN Body(<<Widget("subheader", ""),
                                       Widget("info", "No data returned for Roles benchmark chart.")>>,
                                     "", <<Widget("divider", "")>>, FALSE)
                           ELSE Body(<<Widget("subheader", ""),
                                       Widget("chart_role_benchmarks", "")>>,
                                     "", <<Widget("divider", "")>>, FALSE),
                         "Error loading roles benchmark data: ", "employers")
         ELSE /\ mpc' = "employers"
              /\ rendered' = <<>> /\ exc' = ""
              /\ UNCHANGED <<warehouse, statements, n_errors>>
    /\ UNCHANGED <<fields, fidx>>
    /\ UNCHANGED <<topic, field, country, table_name, npc>>
    /\ UNCHANGED <<genVars, dashVars>>

\* lines 547-565: the employer industry chart, for the topic "employers" only
main_employers ==
    /\ mpc = "employers"
    /\ IF topic = S_employers
         THEN \E r \in to_pandas(select_all(EMPLOYERS_INDUSTRY_BLS), warehouse) :
                try_read(EMPLOYERS_INDUSTRY_BLS, r,
                         IF r = "empty"
                           THEN Body(<<Widget("subheader", ""),
                                       Widget("info", "No data returned for Employer Industry chart.")>>,
                                     "", <<Widget("divider", "")>>, FALSE)
                           ELSE Body(<<Widget("subheader", ""),
                                       Widget("chart_employer_industry", "")>>,
                                     "", <<Widget("divider", "")>>, FALSE),
                         "Error loading employer industry data: ", "done")
         ELSE /\ mpc' = "done"
              /\ rendered' = <<>> /\ exc' = ""
              /\ UNCHANGED <<warehouse, statements, n_errors>>
    /\ UNCHANGED <<fields, fidx>>
    /\ UNCHANGED <<topic, field, country, table_name, npc>>
    /\ UNCHANGED <<genVars, dashVars>>

(* Selections and warehouses main is run on *)

\* largest number of fields chosen in the multiselect
MaxSelected == 2

RECURSIVE Selections(_, _)
\* the lists a multiselect over the options can return: up to n distinct
\* options, in the order they were chosen
Selections(options, n) ==
    IF n = 0 THEN {<<>>}
    ELSE LET shorter == Selections(options, n - 1)
         IN  shorter \cup
             UNION {{Append(s, o) : o \in Range(options) \ Range(s)} :
                    s \in {x \in shorter : Len(x) = n - 1}}

\* the tables of one topic and country that the generator runs leave in the
\* schema, with rows or without
Generated(t, c, contents) ==
    LET names ==
            {_fq(make_kpi_table_name(t, f, c)) : f \in Range(topic_meta(t).fields)}
            \cup {_fq(make_comparison_table_name(t, f, c)) : f \in Range(topic_meta(t).fields)}
            \cup (IF t = S_roles THEN {_fq(ROLES_BENCHMARK_OEWS_ACS)} ELSE {})
            \cup (IF t = S_employers THEN {_fq(EMPLOYERS_INDUSTRY_BLS)} ELSE {})
    IN  [n \in names |-> contents]

\* a schema no generator has written to
NoTables == <<>>

-----------------------------------------------------------------------------
\* the other components at rest
GenIdle ==
    /\ script = "none" /\ TOPICS = [present |-> FALSE, fields |-> <<>>]
    /\ pc = "idle" /\ fi = 0 /\ k = 1 /\ opened = 0 /\ closed = 0
    /\ submitted = <<>> /\ executed = <<>> /\ total = 0 /\ error = ""

NamesIdle ==
    /\ topic = <<>> /\ field = <<>> /\ country = <<>>
    /\ table_name = <<>> /\ npc = "idle"

DashIdle ==
    /\ has_ipeds = FALSE /\ df = <<>> /\ df_top25 = <<>> /\ df_pct = <<>>
    /\ long = <<>> /\ df_change = <<>> /\ dpc = "idle"

MainIdle ==
    /\ fields = <<>> /\ fidx = 0 /\ mpc = "idle" /\ warehouse = <<>>
    /\ statements = <<>> /\ rendered = <<>> /\ exc = "" /\ n_errors = 0

-----------------------------------------------------------------------------
(* Specification of the generator scripts *)

Init ==
    /\ script \in {"employers", "edu"}
    /\ TOPICS \in TopicConfigs
    /\ pc = "start"
    /\ fi = 0 /\ k = 1
    /\ opened = 0 /\ closed = 0
    /\ submitted = <<>> /\ executed = <<>>
    /\ total = 0
    /\ error = ""
    /\ NamesIdle /\ DashIdle /\ MainIdle

Next ==
    \/ main_connect \/ main_meta \/ main_for \/ main_build \/ main_try \/ main_close
    \/ edu_connect \/ edu_meta \/ edu_build \/ edu_exec \/ edu_close

Spec == Init /\ [][Next]_vars

Terminated == pc \in {"done", "raised"}

(* Specification of the table-name helpers *)

InitNames ==
    /\ topic \in TopicInputs
    /\ field \in FieldInputs
    /\ country \in CountryInputs
    /\ table_name = <<>>
    /\ npc = "input"
    /\ GenIdle /\ DashIdle /\ MainIdle

NextNames == call_make_kpi_table_name \/ call_make_comparison_table_name

SpecNames == InitNames /\ [][NextNames]_vars

(* Specification of main's comparison block *)

InitDash ==
    /\ \/ \E n \in 0..MaxRows, null_at \in {0, 1} :
             \E cnt \in [1..n -> Counts \X Counts] :
                has_ipeds = FALSE /\ df = FreeTable(n, cnt, null_at)
       \/ \E t \in Scenarios : has_ipeds = t.has_ipeds /\ df = t.df
    /\ df_top25 = <<>> /\ df_pct = <<>> /\ long = <<>> /\ df_change = <<>>
    /\ dpc = "read"
    /\ GenIdle /\ NamesIdle /\ MainIdle

NextDash == main_empty \/ main_derive \/ chart_percentages \/ chart_counts \/ main_change

SpecDash == InitDash /\ [][NextDash]_vars

(* Specification of main *)

InitMain ==
    /\ topic \in Range(topic_options)
    /\ IF topic = S_dashboard_information
         THEN country = <<>> /\ fields = <<>>
         ELSE /\ country \in Range(COUNTRY_OPTIONS)
              /\ fields \in Selections(topic_meta(topic).fields, MaxSelected)
    /\ warehouse \in {Generated(topic, country, "rows"),
                      Generated(topic, country, "empty"), NoTables}
    /\ field = <<>> /\ table_name = <<>> /\ npc = "idle"
    /\ fidx = 0 /\ mpc = "start"
    /\ statements = <<>> /\ rendered = <<>> /\ exc = "" /\ n_errors = 0
    /\ GenIdle /\ DashIdle

NextMain ==
    \/ main_topic \/ main_field \/ main_kpi \/ main_comp \/ main_roles
    \/ main_employers

SpecMain == InitMain /\ [][NextMain]_vars

(* Specification of the table-name helpers over the configured selections *)

InitConfigured ==
    /\ topic \in Range(topic_options)
    /\ field \in Range(topic_meta(topic).fields)
    /\ country \in Range(COUNTRY_OPTIONS)
    /\ table_name = <<>>
    /\ npc = "input"
    /\ GenIdle /\ DashIdle /\ MainIdle

SpecConfigured == InitConfigured /\ [][NextNames]_vars

-----------------------------------------------------------------------------
(* Properties of the generator scripts *)

\* C1: in main, whatever statements fail, the three statements of every field
\* are submitted once each and in order (KPI, COMP, COMPLC, field by field):
\* what was submitted so far is always a prefix of that list, a failure of
\* execute_ddl never ends the run (only a KeyError of the configuration does),
\* the run can always take its next step, and at Done all were submitted.
C1_EveryStatementSubmitted ==
    script = "employers" =>
        /\ IsPrefix(submitted, AllStatements(items))
        /\ (pc = "raised" => error = "KeyError")
        /\ (pc = "done" => submitted = AllStatements(items))
        /\ (~Terminated => ENABLED Next)

\* C1 witness: a finished run over two fields in which every statement but the
\* last one failed
C1_Witness ==
    /\ script = "employers" /\ pc = "done"
    /\ Len(items) >= 2
    /\ Len(submitted) = 3 * Len(items)
    /\ executed = <<Statement(items[Len(items)], KINDS[3])>>

\* C2: in both scripts the connection is opened once and closed once on every
\* path that ends, also a path ended by an exception
C2_ConnectionReleased ==
    Terminated => opened = 1 /\ closed = 1

\* C3: a run that ends with a configuration error (KeyError) has opened no
\* connection and has executed no statement
C3_ConfigErrorBeforeWarehouse ==
    error = "KeyError" => opened = 0 /\ submitted = <<>>

\* C4: main's counter total always equals the number of statements executed
\* successfully so far, which is the number of tables created, and lies
\* between 0 and 3 times the number of configured fields
C4_TotalCountsSuccesses ==
    script = "employers" =>
        /\ total = Len(executed)
        /\ total = Cardinality({executed[i] : i \in 1..Len(executed)})
        /\ \A i \in 1..Len(executed) : \E j \in 1..Len(submitted) : submitted[j] = executed[i]
        /\ 0 <= total /\ total <= 3 * Len(items)

\* C4 witness: a finished run with successes and failures
C4_Witness ==
    /\ script = "employers" /\ pc = "done"
    /\ total > 0 /\ total < Len(submitted)
    /\ submitted[1] \notin {executed[i] : i \in 1..Len(executed)}

-----------------------------------------------------------------------------
(* Properties of the table-name helpers *)

\* the normalisation the naming convention states, one character at a time:
\* space and hyphen become an underscore, an apostrophe disappears, any other
\* character is upper-cased
NormChar(c) ==
    IF c \in {" ", "-"} THEN <<"_">>
    ELSE IF c = "'" THEN <<>>
    ELSE <<upper_char(c)>>

RECURSIVE Normalized(_)
Normalized(s) == IF s = <<>> THEN <<>> ELSE NormChar(Head(s)) \o Normalized(Tail(s))

Joined(prefix) ==
    prefix \o Normalized(topic) \o <<"_">> \o Normalized(field) \o <<"_">> \o Normalized(country)

KPI_EMPLOYERS_BGI_COMPANY_NAME_UNITED_STATES ==
    <<"K", "P", "I", "_", "E", "M", "P", "L", "O", "Y", "E", "R", "S", "_",
      "B", "G", "I", "_", "C", "O", "M", "P", "A", "N", "Y", "_", "N", "A", "M", "E", "_",
      "U", "N", "I", "T", "E", "D", "_", "S", "T", "A", "T", "E", "S">>

IsExampleInput ==
    topic = S_employers /\ field = S_BGI_Company_Name /\ country = S_United_States

\* C5: the two helpers return KPI_ / COMP_ followed by the normalized topic,
\* field and country joined by underscores; the name holds no space, hyphen,
\* apostrophe or lower-case letter; and ("employers", "BGI Company Name",
\* "United States") gives KPI_EMPLOYERS_BGI_COMPANY_NAME_UNITED_STATES
C5_TableNameNormalized ==
    /\ npc = "kpi" => table_name = Joined(KPI_PREFIX)
    /\ npc = "comp" => table_name = Joined(COMP_PREFIX)
    /\ npc \in {"kpi", "comp"} =>
         \A i \in 1..Len(table_name) :
            table_name[i] \notin {" ", "-", "'"} /\ ~IsLower(table_name[i])
    /\ (npc = "kpi" /\ IsExampleInput) =>
         table_name = KPI_EMPLOYERS_BGI_COMPANY_NAME_UNITED_STATES

\* C5 witness: the KPI name of the example was computed
C5_Witness == npc = "kpi" /\ IsExampleInput /\ Len(table_name) = 44

\* a second case of C5: a name built from a field with an apostrophe and a
\* country with a hyphen
C5_WitnessSpecialChars ==
    /\ npc = "comp" /\ field = S_Bachelors_Degree /\ country = S_Guinea_Bissau
    /\ Len(table_name) = 5 + Len(topic) + 1 + 16 + 1 + 13

-----------------------------------------------------------------------------
(* Properties of main's comparison block *)

Derived == dpc \in {"top25", "percentages", "counts", "done"}

IsCount(x) == x.k = "num" /\ x.d = 1

\* C6: when main has derived pct_change (line 493) every row with a zero base count has an undefined
\* (NaN) pct_change whatever its new count, and every row with a non-zero
\* base count has pct_change = (new - base) / base; base 100, new 150 gives
\* 1/2 and base 100, new 50 gives -1/2
C6_PctChange ==
    dpc = "top25" =>
        \A i \in 1..Len(df) :
            LET base == df[i][CNT_BASE]
                new == df[i][CNT_NEW]
                pc_ == df[i].pct_change
            IN /\ (IsCount(base) /\ base.n = 0) => IsNaN(pc_)
               /\ (IsCount(base) /\ base.n # 0 /\ IsCount(new)) =>
                     /\ pc_.k = "num"
                     /\ pc_.n * base.n = (new.n - base.n) * pc_.d
               /\ (base = Num(100) /\ new = Num(150)) => pc_ = Frac(1, 2)
               /\ (base = Num(100) /\ new = Num(50)) => pc_ = Frac(-1, 2)

\* C6 witness: the example rows were derived
C6_Witness ==
    /\ dpc = "top25" /\ Len(df) = 4
    /\ df[1][CNT_BASE] = Num(100) /\ df[1][CNT_NEW] = Num(150) /\ df[1].pct_change = Frac(1, 2)
    /\ df[2][CNT_BASE] = Num(100) /\ df[2][CNT_NEW] = Num(50) /\ df[2].pct_change = Frac(-1, 2)
    /\ df[3][CNT_BASE] = Num(0) /\ df[3][CNT_NEW] = Num(7) /\ IsNaN(df[3].pct_change)

\* the rows of frame F as a set of original index labels
Labels(F) == {F[i].index : i \in 1..Len(F)}

\* C7: the largest-change selection has no row with an undefined pct_change,
\* is ordered by non-increasing |pct_change|, has at most n rows, each a
\* different row of df, and every row of df with a defined pct_change that
\* is left out has |pct_change| no larger than that of any row kept; for
\* Bachelor's Degree 100 -> 120 and Certificate 0 -> 10 it is the Bachelor's
\* Degree row alone, with pct_change 1/5
C7_LargestChange ==
    dpc = "done" /\ df # <<>> =>
        /\ Len(df_change) <= HEAD_CHANGE
        /\ Cardinality(Labels(df_change)) = Len(df_change)
        /\ \A i \in 1..Len(df_change) :
              /\ ~IsNaN(df_change[i].pct_change)
              /\ df_change[i].index + 1 \in 1..Len(df)
              /\ df_change[i].pct_change = df[df_change[i].index + 1].pct_change
              /\ df_change[i].field_value = df[df_change[i].index + 1].field_value
        /\ \A i, j \in 1..Len(df_change) :
              i < j => fge(fabs(df_change[i].pct_change), fabs(df_change[j].pct_change))
        /\ \A r \in 1..Len(df) :
              (~IsNaN(df[r].pct_change) /\ df[r].index \notin Labels(df_change)) =>
                  \A i \in 1..Len(df_change) :
                      fge(fabs(df_change[i].pct_change), fabs(df[r].pct_change))
        /\ (Len(df) = 2 /\ df[1][CNT_BASE] = Num(100) /\ df[1][CNT_NEW] = Num(120)
              /\ df[2][CNT_BASE] = Num(0) /\ df[2][CNT_NEW] = Num(10)) =>
                  /\ Len(df_change) = 1
                  /\ df_change[1].field_value = Str("Bachelor's Degree")
                  /\ df_change[1].pct_change = Frac(1, 5)

\* C7 witness: the scenario of the claim was ranked
C7_Witness ==
    /\ dpc = "done" /\ Len(df) = 2
    /\ df[2].field_value = Str("Certificate") /\ df[2][CNT_BASE] = Num(0)
    /\ Len(df_change) = 1
    /\ df_change[1].field_value = Str("Bachelor's Degree")
    /\ df_change[1].pct_change = Frac(20, 100)

\* a second case of C7: a row with a defined pct_change was cut off by
\* head(n), and the rows kept differ in |pct_change|
C7_WitnessTruncated ==
    /\ dpc = "done" /\ Len(df_change) = HEAD_CHANGE
    /\ \E r \in 1..Len(df) : ~IsNaN(df[r].pct_change) /\ df[r].index \notin Labels(df_change)
    /\ fabs(df_change[1].pct_change) # fabs(df_change[HEAD_CHANGE].pct_change)

\* C8: when chart_percentages has run, for each version count column and each row, pct is the count over the
\* column's sum over all rows of the frame; when that sum is zero pct is 0 in
\* every row, and when it is not the pct values of the column sum to 1
C8_Percentages ==
    dpc = "percentages" =>
        /\ Len(df_pct) = Len(df_top25)
        /\ \A j \in 1..Len(value_cols) :
              LET col == value_cols[j]
                  pcol == pct_name(col)
                  colsum == fsum(Column(df_top25, col))
              IN IF colsum = Num(0)
                 THEN \A i \in 1..Len(df_pct) : df_pct[i][pcol] = Num(0)
                 ELSE /\ \A i \in 1..Len(df_pct) :
                            IsCount(df_top25[i][col]) =>
                                /\ df_pct[i][pcol].k = "num"
                                /\ df_pct[i][pcol].n * colsum.n = df_top25[i][col].n * df_pct[i][pcol].d
                      /\ fsum(Column(df_pct, pcol)) = Num(1)

\* C8 witness: percentages of a frame of two rows with one column summing to
\* zero and another whose shares are 1/3 and 2/3
C8_Witness ==
    /\ dpc = "percentages" /\ Len(df_pct) = 2
    /\ fsum(Column(df_top25, CNT_BASE)) = Num(0)
    /\ df_pct[1]["pct_v5_oct25"] = Num(0) /\ df_pct[2]["pct_v5_oct25"] = Num(0)
    /\ df_pct[1]["pct_v5_jan26"] = Frac(2, 3) /\ df_pct[2]["pct_v5_jan26"] = Frac(1, 3)

\* C9: df_top25 has at most n rows, is ordered by non-increasing sort key, no
\* row left out has a larger key than a row kept, and rows with equal keys
\* keep their original relative order
C9_RankTopNStable ==
    Derived =>
        /\ Len(df_top25) <= HEAD_TOP
        /\ \A i, j \in 1..Len(df_top25) :
              i < j => desc_order(df_top25[i][CNT_NEW], df_top25[j][CNT_NEW])
        /\ \A r \in 1..Len(df) :
              df[r].index \notin Labels(df_top25) =>
                  \A i \in 1..Len(df_top25) : desc_order(df_top25[i][CNT_NEW], df[r][CNT_NEW])
        /\ \A i, j \in 1..Len(df_top25) :
              (i < j /\ df_top25[i][CNT_NEW] = df_top25[j][CNT_NEW]) =>
                  df_top25[i].index < df_top25[j].index

\* the label _melt gives a row
LabelOf(row) == IF row.field_value.null THEN Str(NULL_LABEL) ELSE row.field_value

\* long holds exactly one row for every row of F and every column of cols,
\* with the row's label and the row's value in that column
MeltedFrom(F, cols) ==
    /\ Len(long) = Len(F) * Len(cols)
    /\ \A i \in 1..Len(F), j \in 1..Len(cols) :
          Cardinality({m \in 1..Len(long) :
              long[m] = [field_value |-> LabelOf(F[i]),
                         version |-> version_map(cols[j]),
                         value |-> F[i][cols[j]]]}) = 1

\* C10: when a chart function has called _melt, _melt gave one output row per (input row, version column) pair, so
\* rows times columns in all, each with the input row's category value and
\* the column's metric; a null category appears as "<NULL>" and is not
\* dropped; the frame given to _melt is as it was (its rows are still the
\* rows of df, nulls included)
C10_Melt ==
    /\ dpc = "percentages" =>
          MeltedFrom(df_pct, [j \in 1..Len(value_cols) |-> pct_name(value_cols[j])])
    /\ dpc = "counts" => MeltedFrom(df_top25, value_cols)
    /\ dpc \in {"percentages", "counts", "done"} =>
          /\ \A i \in 1..Len(df_top25) : df_top25[i] = df[df_top25[i].index + 1]
          /\ \A i \in 1..Len(df_pct) :
                df_pct[i].field_value = df[df_pct[i].index + 1].field_value

\* C10 witness: a frame of two rows, one with a null category, melted over
\* its two count columns into four rows, two of them labelled "<NULL>"
C10_Witness ==
    /\ dpc = "counts" /\ ~has_ipeds /\ Len(df_top25) = 2 /\ Len(long) = 4
    /\ \E i \in 1..2 : df_top25[i].field_value = NullCell
    /\ Cardinality({m \in 1..4 : long[m].field_value = Str(NULL_LABEL)}) = 2

-----------------------------------------------------------------------------
(* Properties of main *)

\* the number of reads main makes for its selections when no read is
\* skipped: two for every chosen field, and one of the topic's benchmark table
ExpectedCount ==
    IF topic = S_dashboard_information THEN 0
    ELSE 2 * Len(fields) + (IF topic \in {S_roles, S_employers} THEN 1 ELSE 0)

\* the table of the i-th of these reads: the KPI and then the comparison
\* table of every chosen field, in order, then the benchmark table
ExpectedTable(i) ==
    IF i > 2 * Len(fields)
      THEN (IF topic = S_roles THEN _fq(ROLES_BENCHMARK_OEWS_ACS)
                               ELSE _fq(EMPLOYERS_INDUSTRY_BLS))
    ELSE IF i % 2 = 1
      THEN _fq(make_kpi_table_name(topic, fields[(i + 1) \div 2], country))
      ELSE _fq(make_comparison_table_name(topic, fields[i \div 2], country))

\* C11: in main, whichever reads fail (KPI, comparison, roles benchmark or
\* employer industry table, of any chosen field), the failure is caught in its
\* own block: the block shows an error and then "Expected table: " with the
\* fully-qualified name of the table it tried to read, and an error is shown
\* for a failed read only; no read is skipped (every read, when it is made,
\* is the next one of the expected list, and once main is done all of the
\* list was read: a failed KPI read is followed by the same field's comparison read,
\* a failed field by the later fields); and no failure ends main (it is
\* always at one of its blocks or done, never stopped by an exception).
C11_ReadFailuresCaught ==
    /\ mpc \in {"start", "for", "kpi", "comp", "roles", "employers", "done"}
    /\ Len(statements) <= ExpectedCount
    /\ (statements # <<>>) =>
          statements[Len(statements)].from = ExpectedTable(Len(statements))
    /\ (mpc = "done") => (Len(statements) = ExpectedCount)
    /\ n_errors <= Len(statements)
    /\ (exc # "") =>
          /\ Len(rendered) >= 2
          /\ rendered[1].w = "error"
          /\ rendered[2] = [w |-> "info", text |-> "Expected table: ",
                            table |-> statements[Len(statements)].from]
    /\ \A i \in 1..Len(rendered) : (rendered[i].w = "error") => (exc # "" /\ i = 1)

\* every read of a roles page with two fields failed, each showed its error,
\* and all five reads were made
C11_Witness ==
    /\ mpc = "done" /\ topic = S_roles /\ Len(fields) >= 2
    /\ n_errors = Len(statements)
    /\ Len(statements) = 2 * Len(fields) + 1

\* the KPI read of the first field failed, and its comparison read was made
\* and gave rows
C11_WitnessKpiOnly ==
    /\ mpc = "for" /\ fidx = 1 /\ Len(statements) = 2
    /\ n_errors = 1 /\ exc = ""
    /\ rendered[1].w = "chart_percentages"

\* a table named by the naming convention for main's topic and country:
\* KPI_ or COMP_, the topic, one of the topic's fields, the country
NamedByConvention(n) ==
    \E f \in Range(topic_meta(topic).fields) :
        \/ n = _fq(make_kpi_table_name(topic, f, country))
        \/ n = _fq(make_comparison_table_name(topic, f, country))

\* the two tables main reads under a fixed name
BenchmarkTables == {_fq(ROLES_BENCHMARK_OEWS_ACS), _fq(EMPLOYERS_INDUSTRY_BLS)}

\* the statement main submitted last, where main has just submitted one
JustRead ==
    \/ mpc \in {"comp", "raised"}
    \/ mpc = "for" /\ fidx > 0
    \/ mpc = "employers" /\ topic = S_roles
    \/ mpc = "done" /\ topic = S_employers

LastStatement == statements[Len(statements)]

\* C12 as stated: every statement main has submitted is a SELECT on a table
\* named by the naming convention. The reads of the two benchmark tables
\* contradict it.
C12_SelectsOnConventionTables ==
    \A i \in 1..Len(statements) :
        statements[i].verb = "SELECT" /\ NamedByConvention(statements[i].from)

\* C12: whatever the selections of topic, country and fields, and whatever
\* the reads return, no step of main changes the set or the contents of the
\* warehouse tables; every statement main submits is a SELECT, and the one it
\* has just submitted reads the KPI_ or COMP_ table the naming convention
\* gives for (topic, field, country), or one of the two benchmark tables,
\* which are read under a fixed name.
C12_ReadOnly ==
    /\ [](/\ \A i \in 1..Len(statements) : statements[i].verb = "SELECT"
          /\ JustRead =>
                \/ LastStatement.from \in BenchmarkTables
                \/ /\ mpc # "for"
                   /\ LastStatement.from = _fq(make_kpi_table_name(topic, field, country))
                \/ /\ mpc = "for"
                   /\ LastStatement.from =
                        _fq(make_comparison_table_name(topic, field, country)))
    /\ [][warehouse' = warehouse]_vars

\* an employers page with two fields and all its tables present: the five
\* reads, the benchmark read among them, all gave rows, and the tables are
\* there as they were
C12_Witness ==
    /\ mpc = "done" /\ topic = S_employers /\ Len(fields) = 2
    /\ Len(statements) = 5 /\ n_errors = 0
    /\ statements[5].from \in BenchmarkTables
    /\ warehouse = Generated(topic, country, "rows")

-----------------------------------------------------------------------------
(* Properties of the table-name helpers over the configured selections *)

\* the configured domain: a helper ("kpi" for the KPI_ prefix, "comp" for
\* COMP_), a topic of TOPICS, a field of that topic, a country of
\* COUNTRY_OPTIONS
ConfiguredDomain ==
    UNION {{<<h, t, f, c>> : h \in {"kpi", "comp"}, f \in Range(topic_meta(t).fields),
                             c \in Range(COUNTRY_OPTIONS)} :
           t \in Range(topic_options)}

\* the name each combination of the configured domain gets
ConfiguredName ==
    [x \in ConfiguredDomain |->
        IF x[1] = "kpi" THEN make_kpi_table_name(x[2], x[3], x[4])
                        ELSE make_comparison_table_name(x[2], x[3], x[4])]

\* C13: over the configured domain (both prefixes, every topic of TOPICS,
\* every field of that topic, every country of COUNTRY_OPTIONS) the table-name
\* functions are injective: the name a helper returned for (topic, field,
\* country) is the name of no other combination of the domain.
C13_NamesInjective ==
    (npc \in {"kpi", "comp"}) =>
        \A x \in ConfiguredDomain :
            (ConfiguredName[x] = table_name) => (x = <<npc, topic, field, country>>)

\* the comparison name of BGI_DEGREE, a field whose name begins two other
\* fields of its topic, for a country written in two words
C13_Witness ==
    /\ npc = "comp" /\ topic = S_education /\ field = S_BGI_DEGREE
    /\ country = S_New_Zealand
    /\ table_name = ConfiguredName[<<"comp", S_education, S_BGI_DEGREE, S_New_Zealand>>]
    /\ Cardinality(ConfiguredDomain) = 252

=============================================================================
